---- MODULE Spec2Model ----
(***************************************************************************)
(* A model of zkinterface-bellman: the field codec (le_to_fr), the         *)
(* translation of zkInterface terms and constraints (terms_to_lc,          *)
(* enforce), the foreign gadget call (call_gadget), the circuit synthesis  *)
(* (ZKIFCircuit::generate_constraints) and the artifact orchestration      *)
(* (zkif_backend).                                                         *)
(*                                                                         *)
(* Field elements are the naturals below Modulus.  A byte buffer is a      *)
(* sequence of naturals below 256, least significant byte first.  A wire   *)
(* variable is a record [id, value], a term a record [id, value], a        *)
(* constraint a record [a, b, c] of term sequences.                        *)
(***************************************************************************)
EXTENDS Integers, Sequences, FiniteSets, TLC

\* ------------------------------------------------------------------ bounds

\* The modulus of the (small) prime field the model is run over.
Modulus == 257
\* Longest byte buffer handed to le_to_fr in the codec specification.
MaxBufLen == 9
\* Largest wire id a message declares or references.
MaxId == 2
\* Most inputs handed to call_gadget.
MaxInputs == 2
\* Most variables (connection and private together) one message stream or
\* response declares.
MaxVariables == 2
\* Most constraints one message stream or response carries.
MaxConstraints == 1
\* Most terms (of A, B and C together) of a constraint given to enforce.
MaxTerms == 3

\* ---------------------------------------------------------------- constants

\* import.rs:25  let words = (F::size_in_bits() + 63) / 64;
WordBits == 64
\* import.rs:26  bytes_le.resize(8 * words as usize, 0);
WordBytes == 8
\* One byte holds the values 0..ByteBase-1.
ByteBase == 256

\* An Option: None, or Some(x) holding x.
None == <<>>
Some(x) == <<x>>
IsSome(o) == o # None
\* Option::unwrap of a value that is Some.
unwrap(o) == o[1]

\* import.rs:74  let first_input_id = 1;
first_input_id == 1

VARIABLES
  \* --- codec
  bytes_le,     \* the buffer given to le_to_fr
  decoded,      \* Some(what le_to_fr returned for it), None before the call
  repr_policy,  \* what the field library's from_repr does with a
                \* representation that is not below the modulus
  \* --- one synthesis session (call_gadget or generate_constraints)
  pc,           \* the position in the running function
  cs,           \* the constraint system synthesised into
  messages,     \* the zkInterface messages read (stream or gadget response)
  id_to_var,    \* the session's map from wire id to variable
  idx,          \* the index of the running loop
  result,       \* None while running, then Some(what the function returned)
  \* --- call_gadget
  inputs,       \* the caller's input handles
  call,         \* None, then Some(the call message sent to exec_fn)
  outputs,      \* the output handles collected so far
  cs0,          \* the caller's constraint system when the call began
  caller_table, \* the binding table the caller keeps for its own wire ids
  \* --- zkif_backend
  fs,           \* the output directory: the key and the proof artifact
  fs0,          \* the output directory when the running invocation began
  circuit,      \* messages.last_circuit(): None, or Some(the circuit's flags)
  stage,        \* which step of zkif_backend runs the synthesis
  bresult       \* None while zkif_backend runs, then Some(what it returned)

codec_vars == <<bytes_le, decoded, repr_policy>>
session_vars == <<pc, cs, messages, id_to_var, idx, result>>
gadget_vars == <<inputs, call, outputs, cs0, caller_table>>
backend_vars == <<fs, fs0, circuit, stage, bresult>>

vars == <<bytes_le, decoded, repr_policy, pc, cs, messages, id_to_var, idx,
          result, inputs, call, outputs, cs0, caller_table, fs, fs0, circuit,
          stage, bresult>>

\* No constraint system (none is being synthesised into).
NoCS == [mode |-> "none", inputs |-> <<>>, aux |-> <<>>, constraints |-> <<>>]

\* The variables of a specification that runs no synthesis session.
NoSession ==
  /\ pc = "idle"
  /\ cs = NoCS
  /\ messages = None
  /\ id_to_var = <<>>
  /\ idx = 0
  /\ result = None

\* The variables of a specification that runs no gadget call.
NoGadget ==
  /\ inputs = <<>>
  /\ call = None
  /\ outputs = <<>>
  /\ cs0 = NoCS
  /\ caller_table = <<>>

\* An output directory that holds neither artifact.  Of the key artifact
\* the directory keeps, besides how much of it is written, the circuit its
\* parameters were generated for.
EmptyDir == [key |-> "absent", proof |-> "absent", key_circuit |-> None]

\* The variables of a specification that runs no zkif_backend.
NoBackend ==
  /\ fs = EmptyDir
  /\ fs0 = EmptyDir
  /\ circuit = None
  /\ stage = "none"
  /\ bresult = None

\* The variables of a specification that decodes no buffer of its own.
NoCodec ==
  /\ bytes_le = <<>>
  /\ decoded = None

\* ------------------------------------------------------------- field codec

RECURSIVE BitLength(_)
\* F::size_in_bits(): the number of bits of the modulus.
BitLength(n) == IF n = 0 THEN 0 ELSE 1 + BitLength(n \div 2)

size_in_bits == BitLength(Modulus)

\* import.rs:25
words == (size_in_bits + (WordBits - 1)) \div WordBits

\* The canonical length of an encoded field element, in bytes.
CanonicalLen == WordBytes * words

\* Vec::resize(n, 0): truncates a longer buffer, pads a shorter one with 0.
resize(bytes, n) == [i \in 1..n |-> IF i <= Len(bytes) THEN bytes[i] ELSE 0]

RECURSIVE LtLE(_, _, _)
\* a < b for two little-endian buffers of the same length n, compared from
\* the most significant byte down (BigInteger's ordering).
LtLE(a, b, n) ==
  IF n = 0 THEN FALSE
  ELSE IF a[n] # b[n] THEN a[n] < b[n]
  ELSE LtLE(a, b, n - 1)

RECURSIVE ModLE(_, _)
\* The integer of the first n bytes of a little-endian buffer, modulo Modulus.
ModLE(a, n) ==
  IF n = 0 THEN 0
  ELSE (ModLE([i \in 1..(n - 1) |-> a[i + 1]], n - 1) * ByteBase + a[1]) % Modulus

RECURSIVE write_be_from(_, _)
\* The buffer of x most significant byte first.
write_be_from(x, n) ==
  IF n = 0 THEN <<>> ELSE write_be_from(x \div ByteBase, n - 1) \o <<x % ByteBase>>

write_be(x) == write_be_from(x, CanonicalLen)

\* into_repr().write_le(..): the canonical little-endian buffer of x.
RECURSIVE write_le_from(_, _)
write_le_from(x, n) ==
  IF n = 0 THEN <<>> ELSE <<x % ByteBase>> \o write_le_from(x \div ByteBase, n - 1)

write_le(x) == write_le_from(x, CanonicalLen)

\* The representation of the modulus itself.
ModulusRepr == write_le(Modulus)

\* Fp::is_valid: the representation is below the modulus.
is_valid(repr) == LtLE(repr, ModulusRepr, CanonicalLen)

\* What from_repr may do with a representation not below the modulus.
ReprPolicies == {"zero", "wrap"}

\* F::from_repr(repr).  The function returns a field element, never an
\* error: a valid representation is that element; one that is not below the
\* modulus becomes zero or is reduced, as the field library decides.
from_repr(repr, policy) ==
  IF is_valid(repr) THEN ModLE(repr, CanonicalLen)
  ELSE IF policy = "zero" THEN 0
  ELSE ModLE(repr, CanonicalLen)

\* import.rs:19-29
le_to_fr(bytes, policy) ==
  IF Len(bytes) = 0 THEN 0
  ELSE from_repr(resize(bytes, CanonicalLen), policy)

\* ------------------------------------------------------ constraint system

\* A variable of the constraint system: Index::Input(i) or Index::Aux(i).
InputVar(i) == [kind |-> "Input", index |-> i]
AuxVar(i) == [kind |-> "Aux", index |-> i]

\* CS::one(): the constant one is the input variable 0.
One == InputVar(0)

\* The two constraint systems a circuit is synthesised into: the key
\* generator's and the prover's.
Modes == {"setup", "prove"}

\* What a constraint system stores for a newly allocated variable: the key
\* generator ("setup") never evaluates the value closure, the prover
\* ("prove") evaluates it and stores the assignment.
Assignment(c, v) == IF c.mode = "prove" THEN Some(v) ELSE None

\* An empty constraint system of the given mode; variable 0 of the inputs is
\* the constant one.
NewCS(mode) ==
  [mode |-> mode,
   inputs |-> <<IF mode = "prove" THEN Some(1) ELSE None>>,
   aux |-> <<>>,
   constraints |-> <<>>]

\* cs.alloc_input(.., || Ok(v)): the variable allocated, and the system after.
NextInputVar(c) == InputVar(Len(c.inputs))
alloc_input(c, v) == [c EXCEPT !.inputs = Append(@, Assignment(c, v))]

\* cs.alloc(.., || Ok(v)): the variable allocated, and the system after.
NextAuxVar(c) == AuxVar(Len(c.aux))
alloc(c, v) == [c EXCEPT !.aux = Append(@, Assignment(c, v))]

\* cs.enforce(.., a, b, c) once the three linear combinations are built.
cs_enforce(c, la, lb, lc) ==
  [c EXCEPT !.constraints = Append(@, [a |-> la, b |-> lb, c |-> lc])]

\* ------------------------------------------------------------ binding table

\* HashMap::new()
EmptyMap == <<>>

\* HashMap::insert(k, v): binds k to v, replacing what k was bound to.
insert(m, k, v) == [x \in (DOMAIN m) \cup {k} |-> IF x = k THEN v ELSE m[x]]

\* HashMap::get(k).is_some()
contains(m, k) == k \in DOMAIN m

\* ---------------------------------------------------------- the translator

\* import.rs:36: vars.get(&term.id).unwrap() panics on an id the map lacks.
terms_resolve(vs, terms) == \A i \in 1..Len(terms) : contains(vs, terms[i].id)

\* import.rs:32-40, when no unwrap panics: the linear combination, a
\* sequence of <<coefficient, variable>> in the order of the terms.
terms_to_lc(vs, terms, policy) ==
  [i \in 1..Len(terms) |-> <<le_to_fr(terms[i].value, policy), vs[terms[i].id]>>]

\* import.rs:43-52: whether enforce runs to its end (no term panics).
enforce_completes(vs, constraint) ==
  /\ terms_resolve(vs, constraint.a)
  /\ terms_resolve(vs, constraint.b)
  /\ terms_resolve(vs, constraint.c)

\* import.rs:43-52: the constraint system after enforce, when it completes.
enforce(c, vs, constraint, policy) ==
  cs_enforce(c, terms_to_lc(vs, constraint.a, policy),
                terms_to_lc(vs, constraint.b, policy),
                terms_to_lc(vs, constraint.c, policy))

\* ------------------------------------------------------------ the messages

Ids == 0..MaxId

\* All sequences over S of length at most n.
SeqsUpTo(S, n) == UNION {[1..k -> S] : k \in 0..n}

\* The value bytes of the i-th variable of a section: none when the section
\* carries no values ("absent"), one byte 3, 5, 7, .. ("valid"), or a
\* canonical-length buffer of an integer above the modulus ("overflow").
ValueBytes(i, kind) ==
  IF kind = "absent" THEN <<>>
  ELSE IF kind = "valid" THEN <<2 * i + 1>>
  ELSE [j \in 1..CanonicalLen |-> ByteBase - 1]

\* A variables section: the declared ids in order, each with its value bytes.
Section(ids, kind) ==
  [i \in 1..Len(ids) |-> [id |-> ids[i], value |-> ValueBytes(i, kind)]]

\* Option<Vec<Variable>>: the section with its declarations, or, for no
\* declaration, also the section missing.
Optional(section) == IF section = <<>> THEN {None, Some(section)} ELSE {Some(section)}

\* The ids the two variable sections of a message declare, in order: a pair
\* <<connection ids, private ids>> of at most MaxVariables ids in all.
DeclaredIds ==
  UNION {UNION {[1..n -> Ids] \X [1..m -> Ids] : m \in 0..(MaxVariables - n)} :
           n \in 0..MaxVariables}

\* The coefficient one, as the one-byte buffer messages carry.
CoefficientOne == <<1>>

Term(id) == [id |-> id, value |-> CoefficientOne]

\* The constraint x * one = x over the variable of wire id x.
ConstraintOn(x) == [a |-> <<Term(x)>>, b |-> <<Term(0)>>, c |-> <<Term(x)>>]

\* The constraint lists of a message: at most MaxConstraints constraints,
\* each x * one = x for a wire id x.
ConstraintLists == SeqsUpTo({ConstraintOn(x) : x \in Ids}, MaxConstraints)

\* The messages a gadget returns or a stream holds: the connection
\* variables, the private variables, the constraints; the variables carry
\* values of one kind.
MessageSets(kinds) ==
  UNION {[connections : Optional(Section(cp[1], k)),
          private : Optional(Section(cp[2], k)),
          constraints : ConstraintLists] : cp \in DeclaredIds, k \in kinds}

\* The responses of a gadget, and the streams given to the driver.
GadgetResponses == MessageSets({"absent", "valid"})
DriverStreams == MessageSets({"absent", "valid", "overflow"})

\* -------------------------------------------------------------- call_gadget

\* The value the caller's first input handle may carry; the i-th handle
\* carries the (i-1)-th value after it, so that no two inputs carry the same.
InputValue == 3

ValueOfInput(i) == InputValue + (i - 1)

\* An FpGadget: the value it carries, if any, and its variable.
FpGadget(value, variable) == [value |-> value, variable |-> variable]

\* The caller's constraint system when call_gadget begins: the constant one,
\* one auxiliary variable per input handle and one more the caller gives to
\* no call, one constraint of its own.
CallerCS(mode, k) ==
  [mode |-> mode,
   inputs |-> <<IF mode = "prove" THEN Some(1) ELSE None>>,
   aux |-> [i \in 1..(k + 1) |-> IF mode = "prove" THEN Some(ValueOfInput(i)) ELSE None],
   constraints |-> <<[a |-> <<<<1, One>>>>, b |-> <<<<1, One>>>>, c |-> <<<<1, One>>>>]>>]

\* The binding table of the caller's own session: the constant one, the
\* caller's own variable under wire id 1 and its k input variables under the
\* wire ids 2..k+1.  (The ids a call reserves, 1..k, and the first id free
\* for the gadget, k+1, are all ids the caller has bound, to other
\* variables.)
CallerTable(ins) ==
  [x \in 0..(Len(ins) + 1) |->
     IF x = 0 THEN One
     ELSE IF x = 1 THEN AuxVar(Len(ins))
     ELSE ins[x - 1].variable]

\* import.rs:60
witness_generation(ins) == Len(ins) > 0 /\ IsSome(ins[1].value)

RECURSIVE serialize_values(_, _)
\* import.rs:64-67: the input values, each written as its canonical buffer.
serialize_values(ins, i) ==
  IF i > Len(ins) THEN <<>>
  ELSE write_le(unwrap(ins[i].value)) \o serialize_values(ins, i + 1)

RECURSIVE serialize_reversed(_, _)
\* The input values written last input first.
serialize_reversed(ins, i) ==
  IF i < 1 THEN <<>>
  ELSE write_le(unwrap(ins[i].value)) \o serialize_reversed(ins, i - 1)

\* A call message whose values come in the reverse of the input order.
CircuitOwned_ValuesReversed(ins) ==
  [connections |->
     [variable_ids |-> [i \in 1..Len(ins) |-> first_input_id + (i - 1)],
      values |-> IF witness_generation(ins)
                 THEN Some(serialize_reversed(ins, Len(ins))) ELSE None],
   free_variable_id |-> first_input_id + Len(ins),
   r1cs_generation |-> TRUE,
   field_maximum |-> None]

\* import.rs:74-85: the call message.
CircuitOwned(ins) ==
  [connections |->
     [variable_ids |-> [i \in 1..Len(ins) |-> first_input_id + (i - 1)],
      values |-> IF witness_generation(ins)
                 THEN Some(serialize_values(ins, 1)) ELSE None],
   free_variable_id |-> first_input_id + Len(ins),
   r1cs_generation |-> TRUE,
   field_maximum |-> None]

RECURSIVE seed_inputs(_, _, _, _)
\* import.rs:99-101: the reserved ids bound to the caller's input variables.
seed_inputs(m, ids, ins, i) ==
  IF i > Len(ins) THEN m
  ELSE seed_inputs(insert(m, ids[i], ins[i].variable), ids, ins, i + 1)

\* import.rs:60-89: the mode is read from the first input; in witness mode
\* every input's value is unwrapped (line 66), which panics on a handle
\* that carries none.
PrepareCall ==
  /\ pc = "cg_start"
  /\ IF witness_generation(inputs) /\ \E i \in 1..Len(inputs) : ~IsSome(inputs[i].value)
     THEN /\ pc' = "panicked"
          /\ result' = Some("panic")
          /\ UNCHANGED call
     ELSE /\ pc' = "cg_exec"
          /\ call' = Some(CircuitOwned(inputs))
          /\ UNCHANGED result
  /\ UNCHANGED <<cs, messages, id_to_var, idx, inputs, outputs, cs0, caller_table,
                 codec_vars, backend_vars>>

\* ExecFails with the variable of a first output allocated before the
\* result of exec_fn is looked at.
ExecFails_AllocFirst ==
  /\ pc = "cg_exec"
  /\ pc' = "done"
  /\ result' = Some("Unsatisfiable")
  /\ cs' = alloc(cs, 0)
  /\ UNCHANGED <<messages, id_to_var, idx, gadget_vars, codec_vars, backend_vars>>

\* import.rs:92: exec_fn returns an error, which call_gadget returns as
\* SynthesisError::Unsatisfiable.
ExecFails ==
  /\ pc = "cg_exec"
  /\ pc' = "done"
  /\ result' = Some("Unsatisfiable")
  /\ UNCHANGED <<cs, messages, id_to_var, idx, gadget_vars, codec_vars, backend_vars>>

\* ExecReturns with the bindings written into the table the last call left
\* rather than into a new one.
ExecReturns_KeepsTable ==
  /\ pc = "cg_exec"
  /\ \E m \in GadgetResponses : messages' = Some(m)
  /\ id_to_var' = seed_inputs(insert(id_to_var, 0, One),
                              unwrap(call).connections.variable_ids, inputs, 1)
  /\ outputs' = <<>>
  /\ idx' = 1
  /\ pc' = "cg_outputs"
  /\ UNCHANGED <<cs, result, inputs, call, cs0, caller_table, codec_vars, backend_vars>>

\* import.rs:92-104: exec_fn returns messages; the table is seeded with the
\* constant one and the inputs.
ExecReturns ==
  /\ pc = "cg_exec"
  /\ \E m \in GadgetResponses : messages' = Some(m)
  /\ id_to_var' = seed_inputs(insert(EmptyMap, 0, One),
                              unwrap(call).connections.variable_ids, inputs, 1)
  /\ outputs' = <<>>
  /\ idx' = 1
  /\ pc' = "cg_outputs"
  /\ UNCHANGED <<cs, result, inputs, call, cs0, caller_table, codec_vars, backend_vars>>

\* The declarations a loop over an optional section runs through.
Declared(section) == IF IsSome(section) THEN unwrap(section) ELSE <<>>

\* AllocOutput with the handle put before the handles collected so far.
AllocOutput_Prepends ==
  /\ pc = "cg_outputs"
  /\ LET vs == Declared(unwrap(messages).connections) IN
     /\ idx <= Len(vs)
     /\ cs' = alloc(cs, le_to_fr(vs[idx].value, repr_policy))
     /\ id_to_var' = insert(id_to_var, vs[idx].id, NextAuxVar(cs))
     /\ outputs' = <<FpGadget(Assignment(cs, le_to_fr(vs[idx].value, repr_policy)),
                              NextAuxVar(cs))>> \o outputs
  /\ idx' = idx + 1
  /\ UNCHANGED <<pc, messages, result, inputs, call, cs0, caller_table, codec_vars,
                 backend_vars>>

\* import.rs:108-117: one output variable allocated, bound and collected.
AllocOutput ==
  /\ pc = "cg_outputs"
  /\ LET vs == Declared(unwrap(messages).connections) IN
     /\ idx <= Len(vs)
     /\ cs' = alloc(cs, le_to_fr(vs[idx].value, repr_policy))
     /\ id_to_var' = insert(id_to_var, vs[idx].id, NextAuxVar(cs))
     /\ outputs' = Append(outputs,
          FpGadget(Assignment(cs, le_to_fr(vs[idx].value, repr_policy)), NextAuxVar(cs)))
  /\ idx' = idx + 1
  /\ UNCHANGED <<pc, messages, result, inputs, call, cs0, caller_table, codec_vars,
                 backend_vars>>

\* OutputsDone going on to the constraints, the private variables not yet
\* allocated.
OutputsDone_ConstraintsFirst ==
  /\ pc = "cg_outputs"
  /\ idx > Len(Declared(unwrap(messages).connections))
  /\ pc' = "cg_constraints"
  /\ idx' = 1
  /\ UNCHANGED <<result, cs, messages, id_to_var, gadget_vars, codec_vars, backend_vars>>

\* import.rs:107-121: past the outputs (none when the response has no
\* connections), private_variables().unwrap() panics on a response without
\* a private section.
OutputsDone ==
  /\ pc = "cg_outputs"
  /\ idx > Len(Declared(unwrap(messages).connections))
  /\ IF IsSome(unwrap(messages).private)
     THEN pc' = "cg_private" /\ idx' = 1 /\ UNCHANGED result
     ELSE pc' = "panicked" /\ result' = Some("panic") /\ UNCHANGED idx
  /\ UNCHANGED <<cs, messages, id_to_var, gadget_vars, codec_vars, backend_vars>>

\* AllocPrivate with the variable allocated as a public input.
AllocPrivate_AsPublic ==
  /\ pc = "cg_private"
  /\ LET vs == unwrap(unwrap(messages).private) IN
     /\ idx <= Len(vs)
     /\ cs' = alloc_input(cs, le_to_fr(vs[idx].value, repr_policy))
     /\ id_to_var' = insert(id_to_var, vs[idx].id, NextInputVar(cs))
  /\ idx' = idx + 1
  /\ UNCHANGED <<pc, messages, result, gadget_vars, codec_vars, backend_vars>>

\* import.rs:123-127: one private variable allocated and bound.
AllocPrivate ==
  /\ pc = "cg_private"
  /\ LET vs == unwrap(unwrap(messages).private) IN
     /\ idx <= Len(vs)
     /\ cs' = alloc(cs, le_to_fr(vs[idx].value, repr_policy))
     /\ id_to_var' = insert(id_to_var, vs[idx].id, NextAuxVar(cs))
  /\ idx' = idx + 1
  /\ UNCHANGED <<pc, messages, result, gadget_vars, codec_vars, backend_vars>>

\* import.rs:123-130: past the private variables, on to the constraints.
PrivateDone ==
  /\ pc = "cg_private"
  /\ idx > Len(unwrap(unwrap(messages).private))
  /\ pc' = "cg_constraints"
  /\ idx' = 1
  /\ UNCHANGED <<cs, messages, id_to_var, result, gadget_vars, codec_vars, backend_vars>>

\* import.rs:130-132: one constraint enforced; a term with an id the table
\* lacks panics (import.rs:36) before the constraint is added.
EnforceConstraint ==
  /\ pc = "cg_constraints"
  /\ LET cons == unwrap(messages).constraints IN
     /\ idx <= Len(cons)
     /\ IF enforce_completes(id_to_var, cons[idx])
        THEN /\ cs' = enforce(cs, id_to_var, cons[idx], repr_policy)
             /\ idx' = idx + 1
             /\ UNCHANGED <<pc, result>>
        ELSE /\ pc' = "panicked"
             /\ result' = Some("panic")
             /\ UNCHANGED <<cs, idx>>
  /\ UNCHANGED <<messages, id_to_var, gadget_vars, codec_vars, backend_vars>>

\* import.rs:134: Ok(outputs)
ReturnOutputs ==
  /\ pc = "cg_constraints"
  /\ idx > Len(unwrap(messages).constraints)
  /\ pc' = "done"
  /\ result' = Some("Ok")
  /\ UNCHANGED <<cs, messages, id_to_var, idx, gadget_vars, codec_vars, backend_vars>>

\* The input handles of a call: k handles on the caller's first k auxiliary
\* variables, each with or without a value.
InputLists ==
  UNION {{[i \in 1..k |-> FpGadget(IF v[i] THEN Some(ValueOfInput(i)) ELSE None,
                                    AuxVar(i - 1))] :
            v \in [1..k -> BOOLEAN]} : k \in 0..MaxInputs}

InitGadget ==
  /\ NoCodec
  /\ NoBackend
  /\ repr_policy = "zero"
  /\ pc = "cg_start"
  /\ inputs \in InputLists
  /\ \E mode \in Modes : cs = CallerCS(mode, Len(inputs))
  /\ cs0 = cs
  /\ caller_table = CallerTable(inputs)
  /\ messages = None
  /\ id_to_var = EmptyMap
  /\ idx = 0
  /\ result = None
  /\ call = None
  /\ outputs = <<>>

NextGadget ==
  \/ PrepareCall
  \/ ExecFails
  \/ ExecReturns
  \/ AllocOutput
  \/ OutputsDone
  \/ AllocPrivate
  \/ PrivateDone
  \/ EnforceConstraint
  \/ ReturnOutputs

SpecGadget == InitGadget /\ [][NextGadget]_vars

\* ------------------------------------------------ two calls, one after another

\* The responses of the gadget the caller calls twice: one output, at most
\* one private variable, one constraint x * one = x, over any wire ids.
OneOutputResponses ==
  {[connections |-> Some(Section(<<o>>, "valid")),
    private |-> Some(Section(p, "valid")),
    constraints |-> <<ConstraintOn(x)>>] :
     o \in Ids, p \in SeqsUpTo(Ids, 1), x \in Ids}

\* import.rs:92-104, for that gadget.
ExecReturnsOneOutput ==
  ExecReturns /\ unwrap(messages') \in OneOutputResponses

\* The call that has returned is the first the caller made: its constraint
\* system was, when the call began, what the caller had built by itself.
FirstCall == cs0 = CallerCS(cs0.mode, Len(inputs))

\* The caller, call_gadget having returned to it, calls it once more on the
\* same input handles.  The table of the returned call is out of reach of
\* the caller and of the next call, which makes its own (import.rs:95);
\* what it held is left as it is.
CallAgain ==
  /\ pc = "done"
  /\ FirstCall
  /\ pc' = "cg_start"
  /\ cs0' = cs
  /\ call' = None
  /\ messages' = None
  /\ outputs' = <<>>
  /\ result' = None
  /\ idx' = 0
  /\ UNCHANGED <<cs, id_to_var, inputs, caller_table, codec_vars, backend_vars>>

NextCalls ==
  \/ PrepareCall
  \/ ExecFails
  \/ ExecReturnsOneOutput
  \/ AllocOutput
  \/ OutputsDone
  \/ AllocPrivate
  \/ PrivateDone
  \/ EnforceConstraint
  \/ ReturnOutputs
  \/ CallAgain

SpecCalls == InitGadget /\ [][NextCalls]_vars

\* ------------------------------------------ ZKIFCircuit::generate_constraints

\* zkif_backend.rs:26-31: the table is created with the constant one;
\* connection_variables().unwrap() panics on a stream without connections.
GcBegin ==
  /\ pc = "gc_start"
  /\ id_to_var' = insert(EmptyMap, 0, One)
  /\ IF IsSome(unwrap(messages).connections)
     THEN pc' = "gc_public" /\ idx' = 1 /\ UNCHANGED result
     ELSE pc' = "panicked" /\ result' = Some("panic") /\ UNCHANGED idx
  /\ UNCHANGED <<cs, messages, gadget_vars, codec_vars, backend_vars>>

\* zkif_backend.rs:33-37: one public input allocated and bound, under the
\* id of its declaration.
GcAllocPublic ==
  /\ pc = "gc_public"
  /\ LET vs == unwrap(unwrap(messages).connections) IN
     /\ idx <= Len(vs)
     /\ cs' = alloc_input(cs, le_to_fr(vs[idx].value, repr_policy))
     /\ id_to_var' = insert(id_to_var, vs[idx].id, NextInputVar(cs))
  /\ idx' = idx + 1
  /\ UNCHANGED <<pc, messages, result, gadget_vars, codec_vars, backend_vars>>

\* zkif_backend.rs:33-40: past the public inputs;
\* private_variables().unwrap() panics on a stream without a private section.
GcPublicDone ==
  /\ pc = "gc_public"
  /\ idx > Len(unwrap(unwrap(messages).connections))
  /\ IF IsSome(unwrap(messages).private)
     THEN pc' = "gc_private" /\ idx' = 1 /\ UNCHANGED result
     ELSE pc' = "panicked" /\ result' = Some("panic") /\ UNCHANGED idx
  /\ UNCHANGED <<cs, messages, id_to_var, gadget_vars, codec_vars, backend_vars>>

\* GcAllocPrivate with the variable allocated as a public input.
GcAllocPrivate_AsPublic ==
  /\ pc = "gc_private"
  /\ LET vs == unwrap(unwrap(messages).private) IN
     /\ idx <= Len(vs)
     /\ cs' = alloc_input(cs, le_to_fr(vs[idx].value, repr_policy))
     /\ id_to_var' = insert(id_to_var, vs[idx].id, NextInputVar(cs))
  /\ idx' = idx + 1
  /\ UNCHANGED <<pc, messages, result, gadget_vars, codec_vars, backend_vars>>

\* zkif_backend.rs:42-46: one private variable allocated and bound, under
\* the id of its declaration.
GcAllocPrivate ==
  /\ pc = "gc_private"
  /\ LET vs == unwrap(unwrap(messages).private) IN
     /\ idx <= Len(vs)
     /\ cs' = alloc(cs, le_to_fr(vs[idx].value, repr_policy))
     /\ id_to_var' = insert(id_to_var, vs[idx].id, NextAuxVar(cs))
  /\ idx' = idx + 1
  /\ UNCHANGED <<pc, messages, result, gadget_vars, codec_vars, backend_vars>>

\* zkif_backend.rs:42-48: past the private variables, on to the constraints.
GcPrivateDone ==
  /\ pc = "gc_private"
  /\ idx > Len(unwrap(unwrap(messages).private))
  /\ pc' = "gc_constraints"
  /\ idx' = 1
  /\ UNCHANGED <<cs, messages, id_to_var, result, gadget_vars, codec_vars, backend_vars>>

\* zkif_backend.rs:48-50: one constraint enforced; a term with an id the
\* table lacks panics (import.rs:36) before the constraint is added.
GcEnforce ==
  /\ pc = "gc_constraints"
  /\ LET cons == unwrap(messages).constraints IN
     /\ idx <= Len(cons)
     /\ IF enforce_completes(id_to_var, cons[idx])
        THEN /\ cs' = enforce(cs, id_to_var, cons[idx], repr_policy)
             /\ idx' = idx + 1
             /\ UNCHANGED <<pc, result>>
        ELSE /\ pc' = "panicked"
             /\ result' = Some("panic")
             /\ UNCHANGED <<cs, idx>>
  /\ UNCHANGED <<messages, id_to_var, gadget_vars, codec_vars, backend_vars>>

\* zkif_backend.rs:52: Ok(())
GcReturn ==
  /\ pc = "gc_constraints"
  /\ idx > Len(unwrap(messages).constraints)
  /\ pc' = "gc_done"
  /\ result' = Some("Ok")
  /\ UNCHANGED <<cs, messages, id_to_var, idx, gadget_vars, codec_vars, backend_vars>>

InitDriver ==
  /\ NoCodec
  /\ NoGadget
  /\ NoBackend
  /\ repr_policy \in ReprPolicies
  /\ pc = "gc_start"
  /\ \E mode \in Modes : cs = NewCS(mode)
  /\ \E m \in DriverStreams : messages = Some(m)
  /\ id_to_var = EmptyMap
  /\ idx = 0
  /\ result = None

NextDriver ==
  \/ GcBegin
  \/ GcAllocPublic
  \/ GcPublicDone
  \/ GcAllocPrivate
  \/ GcPrivateDone
  \/ GcEnforce
  \/ GcReturn

\* ------------------------------------------------------- enforce, by itself

Terms == [id : Ids, value : {CoefficientOne}]

\* The constraints given to enforce: at most MaxTerms terms, dealt in order
\* to A, B and C.
Constraints ==
  UNION {{[a |-> SubSeq(t, 1, ij[1]),
           b |-> SubSeq(t, ij[1] + 1, ij[2]),
           c |-> SubSeq(t, ij[2] + 1, Len(t))] :
            ij \in {x \in (0..Len(t)) \X (0..Len(t)) : x[1] <= x[2]}} :
         t \in SeqsUpTo(Terms, MaxTerms)}

\* The binding tables given to enforce: for each set of wire ids, the table
\* that binds id 0 to the constant one and id i to the auxiliary variable i-1.
Tables ==
  {[x \in D |-> IF x = 0 THEN One ELSE AuxVar(x - 1)] : D \in SUBSET Ids}

\* import.rs:43-52: one call of enforce on a constraint system that holds
\* the auxiliary variables of the tables and a constraint.
InitEnforce ==
  /\ NoCodec
  /\ NoBackend
  /\ repr_policy = "zero"
  /\ pc = "enforce_start"
  /\ \E mode \in Modes : cs = CallerCS(mode, MaxId)
  /\ cs0 = cs
  /\ id_to_var \in Tables
  /\ \E c \in Constraints :
       messages = Some([connections |-> None, private |-> None, constraints |-> <<c>>])
  /\ idx = 1
  /\ result = None
  /\ inputs = <<>>
  /\ call = None
  /\ outputs = <<>>
  /\ caller_table = <<>>

\* import.rs:43-52: enforce returns, the constraint added, or panics in
\* terms_to_lc (import.rs:36).
EnforceCall ==
  /\ pc = "enforce_start"
  /\ LET c == unwrap(messages).constraints[idx] IN
     IF enforce_completes(id_to_var, c)
     THEN /\ cs' = enforce(cs, id_to_var, c, repr_policy)
          /\ pc' = "done"
          /\ result' = Some("Ok")
     ELSE /\ pc' = "panicked"
          /\ result' = Some("panic")
          /\ UNCHANGED cs
  /\ UNCHANGED <<messages, id_to_var, idx, gadget_vars, codec_vars, backend_vars>>

NextEnforce == EnforceCall

SpecEnforce == InitEnforce /\ [][NextEnforce]_vars

\* ------------------------------------------------------------ zkif_backend

\* The circuit of the design's scenario: var1 * one = var1.
ScenarioConstraint ==
  [a |-> <<[id |-> 1, value |-> <<1>>]>>,
   b |-> <<[id |-> 0, value |-> <<1>>]>>,
   c |-> <<[id |-> 1, value |-> <<1>>]>>]

\* A constraint over both connection variables: var1 * var2 = var1.
ProductConstraint ==
  [a |-> <<[id |-> 1, value |-> <<1>>]>>,
   b |-> <<[id |-> 2, value |-> <<1>>]>>,
   c |-> <<[id |-> 1, value |-> <<1>>]>>]

\* The streams zkif_backend is run on: the scenario with and without values,
\* with one connection variable only, without a variables section.
BackendStreams ==
  [connections : {None, Some(Section(<<1, 2>>, "absent")),
                  Some(Section(<<1, 2>>, "valid")), Some(Section(<<1>>, "valid"))},
   private : {None, Some(<<>>), Some(Section(<<2>>, "valid"))},
   constraints : {<<ScenarioConstraint>>, <<ProductConstraint>>}]

\* messages.last_circuit(): none, or the circuit message with its two flags.
CircuitMessages ==
  {None} \cup {Some([r1cs_generation |-> r, witness_generation |-> w]) :
                 r \in BOOLEAN, w \in BOOLEAN}

\* The circuit a stream describes, which generate_constraints synthesises:
\* the declared ids of its public and private variables, in order, and its
\* constraints.  (The values are not part of it.)
CircuitOf(m) ==
  [connections |-> [i \in 1..Len(Declared(m.connections)) |-> Declared(m.connections)[i].id],
   private |-> [i \in 1..Len(Declared(m.private)) |-> Declared(m.private)[i].id],
   constraints |-> m.constraints]

\* zkif_backend returns: the result, and the function is over.
Return(r) == bresult' = Some(r) /\ pc' = "zb_done"

\* zkif_backend.rs:58-70: one invocation begins.  last_circuit() of a stream
\* without a circuit message is AssignmentMissing; OsRng::new() may fail.
Invoke ==
  /\ pc \in {"zb_idle", "zb_done", "panicked"}
  /\ \E m \in BackendStreams : messages' = Some(m)
  /\ \E c \in CircuitMessages, rng_ok \in BOOLEAN :
       /\ circuit' = c
       /\ IF c = None THEN Return("AssignmentMissing")
          ELSE IF ~rng_ok THEN Return("IoError")
          ELSE bresult' = None /\ pc' = "zb_setup"
  /\ fs0' = fs
  /\ cs' = NoCS
  /\ id_to_var' = EmptyMap
  /\ idx' = 0
  /\ result' = None
  /\ stage' = "none"
  /\ UNCHANGED <<fs, gadget_vars, codec_vars>>

\* The synthesis of the circuit into a fresh constraint system begins.
Synthesize(mode, st) ==
  /\ cs' = NewCS(mode)
  /\ id_to_var' = EmptyMap
  /\ idx' = 0
  /\ result' = None
  /\ stage' = st
  /\ pc' = "gc_start"

\* zkif_backend.rs:72-76: with r1cs_generation, generate_random_parameters
\* synthesises the circuit; without, on to the proof.
SetupBegin ==
  /\ pc = "zb_setup"
  /\ IF unwrap(circuit).r1cs_generation
     THEN Synthesize("setup", "keygen")
     ELSE pc' = "zb_proof" /\ UNCHANGED <<cs, id_to_var, idx, result, stage>>
  /\ UNCHANGED <<messages, fs, fs0, circuit, bresult, gadget_vars, codec_vars>>

\* zkif_backend.rs:73-76: generate_random_parameters ends, with the
\* parameters or with an error of the proving backend.
SetupEnd ==
  /\ pc = "gc_done"
  /\ stage = "keygen"
  /\ \E ok \in BOOLEAN :
       IF ok THEN pc' = "zb_create_key" /\ UNCHANGED bresult
       ELSE Return("BackendError")
  /\ UNCHANGED <<cs, messages, id_to_var, idx, result, fs, fs0, circuit, stage,
                 gadget_vars, codec_vars>>

\* zkif_backend.rs:79: File::create(&key_path) creates or truncates the key
\* file, or fails.
CreateKey ==
  /\ pc = "zb_create_key"
  /\ \E ok \in BOOLEAN :
       IF ok THEN /\ fs' = [fs EXCEPT !.key = "partial", !.key_circuit = None]
                  /\ pc' = "zb_write_key"
                  /\ UNCHANGED bresult
       ELSE Return("IoError") /\ UNCHANGED fs
  /\ UNCHANGED <<cs, messages, id_to_var, idx, result, fs0, circuit, stage,
                 gadget_vars, codec_vars>>

\* A key step that goes on to the proof step without the parameters written
\* out in full.
WriteKey_NotPersisted ==
  /\ pc = "zb_write_key"
  /\ pc' = "zb_proof"
  /\ UNCHANGED <<cs, messages, id_to_var, idx, result, fs, fs0, circuit, stage,
                 bresult, gadget_vars, codec_vars>>

\* zkif_backend.rs:80: params.write(f) completes the key file, or fails and
\* leaves what was written.
WriteKey ==
  /\ pc = "zb_write_key"
  /\ \E ok \in BOOLEAN :
       IF ok THEN /\ fs' = [fs EXCEPT !.key = "complete",
                                      !.key_circuit = Some(CircuitOf(unwrap(messages)))]
                  /\ pc' = "zb_proof"
                  /\ UNCHANGED bresult
       ELSE Return("IoError") /\ UNCHANGED fs
  /\ UNCHANGED <<cs, messages, id_to_var, idx, result, fs0, circuit, stage,
                 gadget_vars, codec_vars>>

\* A proof step that does not load the key: it goes on to the proof whether
\* or not the key file is there.
ProofBegin_NoKeyCheck ==
  /\ pc = "zb_proof"
  /\ IF ~unwrap(circuit).witness_generation
     THEN Return("Ok") /\ UNCHANGED <<cs, id_to_var, idx, result, stage>>
     ELSE Synthesize("prove", "proof") /\ UNCHANGED bresult
  /\ UNCHANGED <<messages, fs, fs0, circuit, gadget_vars, codec_vars>>

\* zkif_backend.rs:83-92: without witness_generation the function returns
\* Ok(()).  With it, File::open fails on a missing key file and
\* Parameters::read on an incomplete one (either may fail by itself);
\* then create_random_proof synthesises the circuit.
ProofBegin ==
  /\ pc = "zb_proof"
  /\ IF ~unwrap(circuit).witness_generation
     THEN Return("Ok") /\ UNCHANGED <<cs, id_to_var, idx, result, stage>>
     ELSE \E ok \in BOOLEAN :
            IF ok /\ fs.key = "complete"
            THEN Synthesize("prove", "proof") /\ UNCHANGED bresult
            ELSE Return("IoError") /\ UNCHANGED <<cs, id_to_var, idx, result, stage>>
  /\ UNCHANGED <<messages, fs, fs0, circuit, gadget_vars, codec_vars>>

\* zkif_backend.rs:88-92: create_random_proof ends, with the proof or with
\* an error of the proving backend.
ProofEnd ==
  /\ pc = "gc_done"
  /\ stage = "proof"
  /\ \E ok \in BOOLEAN :
       IF ok THEN pc' = "zb_create_proof" /\ UNCHANGED bresult
       ELSE Return("BackendError")
  /\ UNCHANGED <<cs, messages, id_to_var, idx, result, fs, fs0, circuit, stage,
                 gadget_vars, codec_vars>>

\* zkif_backend.rs:95: File::create(proof_path) creates or truncates the
\* proof file, or fails.
CreateProof ==
  /\ pc = "zb_create_proof"
  /\ \E ok \in BOOLEAN :
       IF ok THEN /\ fs' = [fs EXCEPT !.proof = "partial"]
                  /\ pc' = "zb_write_proof"
                  /\ UNCHANGED bresult
       ELSE Return("IoError") /\ UNCHANGED fs
  /\ UNCHANGED <<cs, messages, id_to_var, idx, result, fs0, circuit, stage,
                 gadget_vars, codec_vars>>

\* zkif_backend.rs:96-98: proof.write(f) completes the proof file and the
\* function returns Ok(()), or fails and leaves what was written.
WriteProof ==
  /\ pc = "zb_write_proof"
  /\ \E ok \in BOOLEAN :
       IF ok THEN fs' = [fs EXCEPT !.proof = "complete"] /\ Return("Ok")
       ELSE Return("IoError") /\ UNCHANGED fs
  /\ UNCHANGED <<cs, messages, id_to_var, idx, result, fs0, circuit, stage,
                 gadget_vars, codec_vars>>

InitBackend ==
  /\ NoCodec
  /\ NoGadget
  /\ pc = "zb_idle"
  /\ cs = NoCS
  /\ messages = None
  /\ id_to_var = EmptyMap
  /\ idx = 0
  /\ result = None
  /\ repr_policy \in ReprPolicies
  /\ fs = EmptyDir
  /\ fs0 = EmptyDir
  /\ circuit = None
  /\ stage = "none"
  /\ bresult = None

NextBackend ==
  \/ Invoke
  \/ SetupBegin
  \/ SetupEnd
  \/ CreateKey
  \/ WriteKey
  \/ ProofBegin
  \/ ProofEnd
  \/ CreateProof
  \/ WriteProof
  \/ NextDriver

SpecBackend == InitBackend /\ [][NextBackend]_vars

\* ------------------------------------- zkif_backend, nothing around it failing

\* The same steps in an environment that meets no failure of its own: the
\* random source opens (zkif_backend.rs:70), the file system creates,
\* writes and reads back what it is asked to (79-80, 85-86, 95-96), the
\* prover generates parameters (73-76) and, from the parameters of the
\* circuit it is given, a proof (88-92).  What the code itself makes of its
\* input stays: the missing circuit message, the missing key, the panics.
InvokeReliable == Invoke /\ bresult' # Some("IoError")

SetupEndReliable == SetupEnd /\ bresult' # Some("BackendError")

CreateKeyReliable == CreateKey /\ bresult' # Some("IoError")

WriteKeyReliable == WriteKey /\ bresult' # Some("IoError")

ProofBeginReliable ==
  ProofBegin /\ (fs.key = "complete" => bresult' # Some("IoError"))

ProofEndReliable ==
  ProofEnd /\ (fs.key_circuit = Some(CircuitOf(unwrap(messages)))
                 => bresult' # Some("BackendError"))

CreateProofReliable == CreateProof /\ bresult' # Some("IoError")

WriteProofReliable == WriteProof /\ bresult' # Some("IoError")

\* The steps of a running invocation: zkif_backend is sequential code, and
\* once invoked it runs on until it returns or panics.
RunReliable ==
  \/ SetupBegin
  \/ SetupEndReliable
  \/ CreateKeyReliable
  \/ WriteKeyReliable
  \/ ProofBeginReliable
  \/ ProofEndReliable
  \/ CreateProofReliable
  \/ WriteProofReliable
  \/ NextDriver

NextBackendReliable == InvokeReliable \/ RunReliable

SpecBackendReliable ==
  InitBackend /\ [][NextBackendReliable]_vars /\ WF_vars(RunReliable)

\* ------------------------------------------------------- the specifications

\* One synthesis session: a gadget call or a run of the driver.
Init == InitGadget \/ InitDriver

Next == NextGadget \/ NextDriver

Spec == Init /\ [][Next]_vars

\* ------------------------------------------------- codec specification

ByteVals == {0, 1, ByteBase - 1}

Buffers == UNION {[1..n -> ByteVals] : n \in 0..MaxBufLen}

InitCodec ==
  /\ bytes_le \in Buffers
  /\ decoded = None
  /\ repr_policy \in ReprPolicies
  /\ NoSession
  /\ NoGadget
  /\ NoBackend

\* One call of le_to_fr on the buffer.
Decode ==
  /\ decoded = None
  /\ decoded' = Some(le_to_fr(bytes_le, repr_policy))
  /\ UNCHANGED <<bytes_le, repr_policy, session_vars, gadget_vars, backend_vars>>

NextCodec == Decode

SpecCodec == InitCodec /\ [][NextCodec]_vars

\* The field elements: the integers below the modulus.
FieldElements == 0..(Modulus - 1)

\* le_to_fr on what into_repr().write_le(..) writes (import.rs:66) for a
\* field element, and on the empty buffer.
InitRoundTrip ==
  /\ bytes_le \in {write_le(x) : x \in FieldElements} \cup {<<>>}
  /\ decoded = None
  /\ repr_policy \in ReprPolicies
  /\ NoSession
  /\ NoGadget
  /\ NoBackend

SpecRoundTrip == InitRoundTrip /\ [][NextCodec]_vars

\* ---------------------------------------------------------------- claims

\* The session has ended in a failure: a returned error or a panic.
Failed == IsSome(result) /\ unwrap(result) # "Ok"

\* C1: call_gadget is all-or-nothing.  When the call fails after exec_fn has
\* returned its messages, the caller's constraint system is what it was
\* when the call began.
C1_AllOrNothing ==
  (pc \in {"done", "panicked"} /\ IsSome(messages) /\ Failed) => cs = cs0

\* C2: when exec_fn returns an error (the call message was sent and no
\* messages came back), call_gadget returns an error and the caller's
\* constraint system (variables and constraints) and binding table are what
\* they were before the call; nothing is handed back.
C2_ExternalFailureIsFrame ==
  (IsSome(call) /\ ~IsSome(messages) /\ pc # "cg_exec") =>
     /\ pc = "done"
     /\ result = Some("Unsatisfiable")
     /\ cs = cs0
     /\ caller_table = CallerTable(inputs)
     /\ outputs = <<>>

\* C2 witness: a call with inputs, on a caller that holds variables and a
\* constraint, has failed in exec_fn.
C2_Witness ==
  /\ pc = "done"
  /\ result = Some("Unsatisfiable")
  /\ Len(inputs) > 0
  /\ Len(cs0.aux) > 0
  /\ Len(cs0.constraints) > 0

\* C3: enforce on a constraint whose terms are all bound succeeds and adds
\* exactly one constraint; on a constraint with an unbound id it fails with
\* UnknownVariable and leaves the constraints as they were.
C3_EnforceTotal ==
  (pc \in {"done", "panicked"}) =>
     IF enforce_completes(id_to_var, unwrap(messages).constraints[1])
     THEN /\ result = Some("Ok")
          /\ Len(cs.constraints) = Len(cs0.constraints) + 1
          /\ SubSeq(cs.constraints, 1, Len(cs0.constraints)) = cs0.constraints
     ELSE /\ result = Some("UnknownVariable")
          /\ cs.constraints = cs0.constraints

\* The variable declaration the allocation loop is about to process, if any.
AtDeclaration ==
  \/ /\ pc \in {"cg_outputs"}
     /\ idx <= Len(Declared(unwrap(messages).connections))
  \/ /\ pc \in {"gc_public"}
     /\ idx <= Len(unwrap(unwrap(messages).connections))
  \/ /\ pc \in {"cg_private", "gc_private"}
     /\ idx <= Len(unwrap(unwrap(messages).private))
CurrentDeclaration ==
  IF pc \in {"cg_outputs", "gc_public"}
  THEN unwrap(unwrap(messages).connections)[idx]
  ELSE unwrap(unwrap(messages).private)[idx]

\* C4: every wire id is bound at most once in a session.  A declaration
\* whose id is already bound fails with DuplicateBinding and the binding of
\* that id stays what it was.
C4_BoundAtMostOnce ==
  [][(AtDeclaration /\ contains(id_to_var, CurrentDeclaration.id)) =>
       /\ id_to_var' = id_to_var
       /\ result' = Some("DuplicateBinding")]_vars

AllHaveValues(ins) == \A i \in 1..Len(ins) : IsSome(ins[i].value)
NoneHasValue(ins) == \A i \in 1..Len(ins) : ~IsSome(ins[i].value)

\* C5: call_gadget reads its mode from all inputs: values are sent when
\* every input carries one, omitted when none does, and inputs of which
\* some carry a value and some do not fail with ProtocolViolation.  (A call
\* without inputs has no value to send; either mode is taken as right.)
C5_ModeFromAllInputs ==
  (pc # "cg_start" /\ Len(inputs) > 0) =>
     IF AllHaveValues(inputs)
     THEN IsSome(call) /\ IsSome(unwrap(call).connections.values)
     ELSE IF NoneHasValue(inputs)
     THEN IsSome(call) /\ ~IsSome(unwrap(call).connections.values)
     ELSE result = Some("ProtocolViolation")

\* C6: an invocation of zkif_backend that returns an error has created or
\* modified neither the key nor the proof artifact.
C6_NoPartialArtifact ==
  (IsSome(bresult) /\ unwrap(bresult) # "Ok") => fs = fs0

\* A buffer that decodes: empty, or an integer below the modulus.
Decodable(bytes) ==
  \/ Len(bytes) = 0
  \/ /\ \A i \in 1..Len(bytes) : i > CanonicalLen => bytes[i] = 0
     /\ is_valid(resize(bytes, CanonicalLen))

\* Every value and coefficient of the messages decodes.
AllDecodable(m) ==
  /\ \A i \in 1..Len(Declared(m.connections)) : Decodable(Declared(m.connections)[i].value)
  /\ \A i \in 1..Len(Declared(m.private)) : Decodable(Declared(m.private)[i].value)
  /\ \A i \in 1..Len(m.constraints) :
       \A lc \in {m.constraints[i].a, m.constraints[i].b, m.constraints[i].c} :
         \A j \in 1..Len(lc) : Decodable(lc[j].value)

\* C7: every failure of a session over its messages is a typed error
\* returned to the caller: no session that has its messages panics (on a
\* missing variables section, on an unbound id), and a session over
\* messages with a value that does not decode does not return Ok.
C7_TypedErrorsOnly ==
  /\ IsSome(messages) => pc # "panicked"
  /\ (IsSome(messages) /\ result = Some("Ok")) => AllDecodable(unwrap(messages))

\* C8: once the table of a session exists, id 0 is bound in it to the
\* constant one, in every later state of the session.
C8_ZeroIsOne ==
  (id_to_var # EmptyMap) => (contains(id_to_var, 0) /\ id_to_var[0] = One)

\* The little-endian integer of the whole buffer is at least the modulus.
AtLeastModulus(bytes) ==
  LET n == IF Len(bytes) > CanonicalLen THEN Len(bytes) ELSE CanonicalLen IN
  ~LtLE(resize(bytes, n), resize(ModulusRepr, n), n)

\* C9: le_to_fr returns no field element for a buffer whose integer is at
\* least the modulus (the decoding fails with DecodeError).
C9_RejectsNonCanonical ==
  ~(IsSome(decoded) /\ AtLeastModulus(bytes_le))

\* C10: in a witness run of the driver (the synthesis of the proof step), a
\* declared variable whose value the stream omits has no assignment in the
\* constraint system, and the invocation writes no proof from it.
C10_OmittedValueUnassigned ==
  LET m == unwrap(messages)
      conn == unwrap(m.connections)
      priv == unwrap(m.private)
  IN
  /\ (stage = "proof" /\ pc = "gc_done") =>
        /\ \A i \in 1..Len(conn) :
             conn[i].value = <<>> => ~IsSome(cs.inputs[i + 1])
        /\ \A i \in 1..Len(priv) :
             priv[i].value = <<>> => ~IsSome(cs.aux[i])
  /\ (stage = "proof" /\ bresult = Some("Ok")) =>
        \A i \in 1..Len(conn) : conn[i].value # <<>>

\* The running (or last) invocation is a witness run: the circuit message
\* asks for the witness step only.
WitnessRun ==
  /\ IsSome(circuit)
  /\ unwrap(circuit).witness_generation
  /\ ~unwrap(circuit).r1cs_generation

\* C11: a witness run of zkif_backend in a directory without a key
\* artifact ends in IoError and leaves the proof artifact as it was; and
\* whenever zkif_backend is writing or has written a proof artifact, the
\* complete key artifact is in the directory.
C11_ProofNeedsKey ==
  /\ (WitnessRun /\ fs0.key = "absent") =>
        /\ fs.proof = fs0.proof
        /\ pc \notin {"gc_start", "gc_public", "gc_private", "gc_constraints",
                      "gc_done", "zb_create_proof", "zb_write_proof"}
        /\ IsSome(bresult) => bresult = Some("IoError")
  /\ (pc \in {"zb_create_proof", "zb_write_proof"} \/ fs.proof # fs0.proof) =>
        fs.key = "complete"

\* C11 witness: a witness run in a directory without a key artifact (and
\* with a proof artifact neither written nor begun) has returned IoError.
C11_Witness ==
  /\ WitnessRun
  /\ fs0.key = "absent"
  /\ pc = "zb_done"
  /\ bresult = Some("IoError")
  /\ fs.proof = "absent"

\* Every variable the stream declares comes in a section that is there and
\* with a value that decodes.
HasItsValues(m) ==
  /\ IsSome(m.connections)
  /\ IsSome(m.private)
  /\ \A v \in {Declared(m.connections)[i] : i \in 1..Len(Declared(m.connections))}
          \cup {Declared(m.private)[i] : i \in 1..Len(Declared(m.private))} :
       v.value # <<>> /\ Decodable(v.value)

\* A witness run begins for a circuit whose key artifact a structural run
\* has left complete in the directory, on a stream with its values.
WitnessRunAfterSetup ==
  /\ pc = "zb_setup"
  /\ WitnessRun
  /\ fs.key = "complete"
  /\ fs.key_circuit = Some(CircuitOf(unwrap(messages)))
  /\ HasItsValues(unwrap(messages))

\* The invocation asks for both steps.
BothFlags ==
  /\ IsSome(circuit)
  /\ unwrap(circuit).r1cs_generation
  /\ unwrap(circuit).witness_generation

\* C12: with nothing around zkif_backend failing, a witness run that follows
\* a successful structural run for the same circuit in the same directory
\* returns Ok with the proof artifact written; and in an invocation with
\* both flags the proof step begins only with the complete key artifact of
\* this circuit in the directory.
C12_SetupThenProve ==
  /\ [](BothFlags /\ pc = "zb_proof" =>
          /\ fs.key = "complete"
          /\ fs.key_circuit = Some(CircuitOf(unwrap(messages))))
  /\ (WitnessRunAfterSetup ~> (bresult = Some("Ok") /\ fs.proof = "complete"))

\* C12 witness: the witness run of the scenario (two public variables with
\* values, one constraint), begun over the complete key of that circuit and
\* no proof artifact, has returned Ok with the proof artifact written.
C12_Witness ==
  /\ WitnessRun
  /\ fs0.key = "complete"
  /\ fs0.key_circuit = Some(CircuitOf(unwrap(messages)))
  /\ fs0.proof = "absent"
  /\ unwrap(messages).connections = Some(Section(<<1, 2>>, "valid"))
  /\ unwrap(messages).constraints = <<ScenarioConstraint>>
  /\ pc = "zb_done"
  /\ bresult = Some("Ok")
  /\ fs.proof = "complete"

\* The i-th value of a concatenation of canonical buffers.
ValueAt(values, i) ==
  SubSeq(values, (i - 1) * CanonicalLen + 1, i * CanonicalLen)

\* C13: the call message of a call with k inputs carries the connection ids
\* 1..k in order, free_variable_id = k + 1 and the r1cs_generation flag;
\* when every input carries a value (k > 0) it carries the k values, the
\* i-th being the i-th input's, and when no input carries one it carries
\* no values.
C13_CallMessage ==
  IsSome(call) =>
    LET c == unwrap(call)
        k == Len(inputs)
    IN
    /\ c.connections.variable_ids = [i \in 1..k |-> i]
    /\ c.free_variable_id = k + 1
    /\ c.r1cs_generation = TRUE
    /\ (k > 0 /\ AllHaveValues(inputs)) =>
          /\ IsSome(c.connections.values)
          /\ Len(unwrap(c.connections.values)) = k * CanonicalLen
          /\ \A i \in 1..k :
                le_to_fr(ValueAt(unwrap(c.connections.values), i), repr_policy)
                  = unwrap(inputs[i].value)
    /\ NoneHasValue(inputs) => c.connections.values = None

\* C13 witness: the call message of a call with MaxInputs (at least two)
\* inputs, all with values, has been sent.
C13_Witness ==
  /\ IsSome(call)
  /\ pc # "cg_start"
  /\ Len(inputs) = MaxInputs
  /\ Len(inputs) >= 2
  /\ AllHaveValues(inputs)
  /\ unwrap(inputs[1].value) # unwrap(inputs[2].value)

\* What a call binds before it reads the response: the constant one under
\* id 0 and its i-th input handle's variable under the reserved id i.
SeededTable(ins) ==
  [x \in 0..Len(ins) |-> IF x = 0 THEN One ELSE ins[x].variable]

\* The call has just made and seeded its table.
JustSeeded == pc = "cg_outputs" /\ idx = 1

\* C14: the binding table of a call is the call's own.  When the call has
\* seeded it, it holds the constant one and the reserved ids 1..k bound to
\* the call's inputs and nothing else, whatever the caller has bound under
\* those ids and whatever the call before has bound; and in every state of a
\* call and after it, returned, failed or panicked, the caller's table is
\* what it was.
C14_TableIsPrivate ==
  /\ JustSeeded => id_to_var = SeededTable(inputs)
  /\ caller_table = CallerTable(inputs)

\* C14 witness: a second call on at least one input has seeded its table,
\* the first having allocated (and bound) variables, with the caller's own
\* table binding the reserved id 1 to another variable than the input's.
C14_Witness ==
  /\ JustSeeded
  /\ ~FirstCall
  /\ Len(inputs) >= 1
  /\ caller_table[1] # inputs[1].variable
  /\ Len(cs0.aux) > Len(inputs) + 1

\* call_gadget has returned Ok(outputs).
Returned == pc = "done" /\ result = Some("Ok")

\* The variables call_gadget returns handles of.
ReturnedVariables == {outputs[i].variable : i \in 1..Len(outputs)}

\* C15: a successful call_gadget returns one handle per output the response
\* declared, in the declared order: the i-th handle is of the i-th variable
\* the call allocated, which is new to the caller and carries (in the
\* prover) the decoded value of the i-th declaration; no variable allocated
\* for a private declaration is among them.
C15_OutputsInOrder ==
  Returned =>
    LET decl == Declared(unwrap(messages).connections)
        priv == Declared(unwrap(messages).private)
        n0 == Len(cs0.aux)
    IN
    /\ Len(outputs) = Len(decl)
    /\ \A i \in 1..Len(decl) :
          /\ outputs[i].variable = AuxVar(n0 + i - 1)
          /\ outputs[i].value = cs.aux[n0 + i]
          /\ cs.mode = "prove" =>
                outputs[i].value = Some(le_to_fr(decl[i].value, repr_policy))
    /\ \A j \in 1..Len(priv) :
          AuxVar(n0 + Len(decl) + j - 1) \notin ReturnedVariables

\* C15 witness: a call in the prover has returned the handles of two
\* outputs, declared with different values.
C15_Witness ==
  /\ Returned
  /\ cs.mode = "prove"
  /\ Len(outputs) = 2
  /\ outputs[1].value # outputs[2].value

\* The ids a sequence of declarations declares.
IdsOf(decl) == {decl[i].id : i \in 1..Len(decl)}

\* The ids the terms of a constraint name.
IdsIn(constraint) ==
  IdsOf(constraint.a) \cup IdsOf(constraint.b) \cup IdsOf(constraint.c)

\* A well-formed stream: both variable sections are there, no id is
\* declared twice and id 0 is not declared, and the constraints name only
\* id 0 and declared ids.
WellFormed(m) ==
  /\ IsSome(m.connections)
  /\ IsSome(m.private)
  /\ LET all == unwrap(m.connections) \o unwrap(m.private) IN
     /\ \A i, j \in 1..Len(all) : all[i].id = all[j].id => i = j
     /\ 0 \notin IdsOf(all)
     /\ \A i \in 1..Len(m.constraints) : IdsIn(m.constraints[i]) \subseteq {0} \cup IdsOf(all)

\* A run of the driver (which no gadget call has to do with) is over.
DriverOver == pc \in {"gc_done", "panicked"} /\ call = None /\ IsSome(messages)

C17_RoundTrip ==
  IsSome(decoded) =>
    /\ \A x \in FieldElements : bytes_le = write_le(x) => unwrap(decoded) = x
    /\ bytes_le = <<>> => unwrap(decoded) = 0

\* C17 witness: the largest field element, whose buffer has more than one
\* byte that is not zero or a byte past the first that is not, has been
\* decoded from its buffer.
C17_Witness ==
  /\ bytes_le = write_le(Modulus - 1)
  /\ \E i \in 2..CanonicalLen : bytes_le[i] # 0
  /\ decoded = Some(Modulus - 1)

\* The session has allocated a variable for every declaration of its
\* messages and bound every declared id.
AllAllocated ==
  LET m == unwrap(messages)
      conn == Declared(m.connections)
      priv == Declared(m.private)
  IN
  /\ Len(cs.inputs) + Len(cs.aux) = 1 + Len(cs0.aux) + Len(conn) + Len(priv)
  /\ IdsOf(conn) \cup IdsOf(priv) \subseteq DOMAIN id_to_var

\* The session is in its loop over the constraints.
Enforcing == pc \in {"cg_constraints", "gc_constraints"}

\* C18: a step of call_gadget or of the driver that is in the loop over the
\* constraints, or that adds a constraint, finds every declared variable
\* allocated and bound and leaves the binding table as it is.
C18_BindThenEnforce ==
  [][(Enforcing \/ cs'.constraints # cs.constraints) =>
       /\ AllAllocated
       /\ id_to_var' = id_to_var]_vars

\* C18 witness: call_gadget has enforced a constraint of a response that
\* declares an output and a private variable.
C18_Witness ==
  /\ pc = "cg_constraints"
  /\ idx > 1
  /\ Len(cs.constraints) > Len(cs0.constraints)
  /\ Len(Declared(unwrap(messages).connections)) >= 1
  /\ Len(Declared(unwrap(messages).private)) >= 1

\* s is t with n elements appended.
Extends(s, t, n) == Len(s) = Len(t) + n /\ SubSeq(s, 1, Len(t)) = t

\* C19: call_gadget binds the reserved id i to its i-th input's variable and
\* allocates nothing in doing so; a binding the response does not declare
\* anew is there when the call returns.  A call that returns Ok has added
\* to the caller's constraint system one auxiliary variable per declared
\* output and per declared private variable, no public input, and one
\* constraint per constraint of the response, and has left what the system
\* held as it was.
C19_AddsWhatIsDeclared ==
  LET m == unwrap(messages)
      conn == Declared(m.connections)
      priv == Declared(m.private)
      k == Len(inputs)
  IN
  /\ (pc = "cg_outputs" /\ idx = 1) =>
        /\ cs = cs0
        /\ \A i \in 1..k : id_to_var[i] = inputs[i].variable
  /\ Returned =>
        /\ \A i \in (1..k) \ (IdsOf(conn) \cup IdsOf(priv)) :
              id_to_var[i] = inputs[i].variable
        /\ cs.inputs = cs0.inputs
        /\ Extends(cs.aux, cs0.aux, Len(conn) + Len(priv))
        /\ Extends(cs.constraints, cs0.constraints, Len(m.constraints))

\* C19 witness: a call on an input has returned Ok from a response that
\* declares an output, a private variable and a constraint, none under the
\* reserved id.
C19_Witness ==
  /\ Returned
  /\ Len(inputs) >= 1
  /\ Len(Declared(unwrap(messages).connections)) = 1
  /\ Len(Declared(unwrap(messages).private)) = 1
  /\ Len(unwrap(messages).constraints) = 1
  /\ 1 \notin IdsOf(Declared(unwrap(messages).connections))
                \cup IdsOf(Declared(unwrap(messages).private))
  /\ Len(cs.aux) = Len(cs0.aux) + 2

====
